---- MODULE Spec2Model ----
(***************************************************************************)
(* Agent connection and state synchronisation core of PopeAgent            *)
(* (src/pope/PopeAgent.mjs): the backend channel's lifecycle (probe,       *)
(* handshake, timeout, close, reconnect with backoff, health monitor),     *)
(* the agent's start/stop, the idle behaviour timers, the router of        *)
(* backend messages with the state updates it applies, and the chat feed   *)
(* and greetings.                                                          *)
(*                                                                         *)
(* JavaScript runs every handler to completion, so each action below is    *)
(* one handler (or one continuation of an async function between two       *)
(* awaits).  A socket is driven by the events the WebSocket delivers.      *)
(* Timers are pending callbacks.  Their order is kept where the connection *)
(* monitor's period decides it: a callback due d ms after it was set runs  *)
(* before the monitor has ticked more often than a span of d ms allows     *)
(* (its allowance of ticks).  Otherwise a pending callback may run at any  *)
(* later moment.                                                           *)
(***************************************************************************)
EXTENDS Integers, Sequences, FiniteSets, Bags

\* ---------------------------------------------------------------- bounds
\* Sockets that exist at once: made and not yet garbage (connecting, open,
\* closing, or closed with the handshake timer still outstanding).
MaxSockets == 2
\* Reconnect timers plus connectToBackend calls awaiting their probe.
MaxPending == 2
\* The give-up diagnostic is counted up to this many emissions.
MaxDiag == 2
\* Movement completion timers outstanding at once.
MaxMoves == 2
\* Entries of chatHistory.
MaxChat == 2

\* ------------------------------------------------------ program constants
MAX_ATTEMPTS == 10
baseDelay == 5000
MaxBackoff == 60000
InteractionTimeout == 60000
MonitorPeriod == 30000
HandshakeTimeoutMs == 30000
ProbeTimeoutMs == 3000

\* The jitter factor 0.9 + Math.random() * 0.2, in thousandths: Math.random()
\* is in [0, 1), so the factor is in [0.9, 1.1).
JitterSet == {900, 1000, 1098}

\* Milliseconds by which the clock may advance in one step.
TimeSteps == {30000}

VARIABLES
  startPc,              \* "new", "probing", "awaiting", "running", "stopped"
  isConnected,          \* this.state.isConnected
  isBackendConnected,   \* this.state.isBackendConnected
  connectionAttempts,   \* this.connectionAttempts (undefined reads as 0)
  socket,               \* this.socket: <<>> is null, else <<the socket>>
  others,               \* the sockets this.socket no longer refers to, whose
                        \* handlers or handshake timer can still run (a bag:
                        \* the program holds no reference that tells them apart)
  reconnectTimers,      \* outstanding setTimeout callbacks of scheduleReconnect:
                        \* how many there are of each allowance of monitor ticks
  probes,               \* reconnect-initiated connectToBackend calls awaiting the
                        \* probe, likewise
  connectionMonitor,    \* the 30 s health interval is set
  giveUps,              \* give-up diagnostics emitted since the counter was last reset
  outMsg,               \* socket.send calls of the handler that ran last
  scheduleLog,          \* what scheduleReconnect did in the handler that ran last
  currentAnimation,     \* this.state.currentAnimation
  currentRotation,      \* this.state.currentRotation, as the yaw angle in degrees
  currentPosition,      \* this.state.currentPosition
  isMoving, isSpeaking, isThinking, browserActive,
  sinceInteraction,     \* Date.now() - this.state.lastInteraction, saturating
  idleAnimationInterval, lookAroundInterval,
  dwellTimers,          \* outstanding 5 s revert timers of the idle cycle
  activeModel,          \* this.state.activeModel
  chatHistory,          \* this.state.chatHistory, without the timestamps
  moveTimers,           \* outstanding 1 s completion timers of moveToPosition
  greetTimers,          \* outstanding 3 s reset timers of onPlayerNearby
  msgLog                \* what the message handler that ran last did: the
                        \* branch taken, and what was raised or logged

connVars == <<isBackendConnected, connectionAttempts, socket, others,
              reconnectTimers, probes, giveUps>>
lifeVars == <<startPc, isConnected, connectionMonitor, idleAnimationInterval,
              lookAroundInterval>>
obsVars == <<outMsg, scheduleLog, msgLog>>
localVars == <<currentAnimation, currentRotation, currentPosition, isMoving,
               isSpeaking, isThinking, browserActive, sinceInteraction, dwellTimers,
               activeModel, chatHistory, moveTimers, greetTimers>>
vars == <<connVars, lifeVars, obsVars, localVars>>

Min(a, b) == IF a < b THEN a ELSE b

\* Monitor ticks that can fall into a span of d ms: one that begins at a
\* tick (a callback set by the monitor's own handler), or at any moment.
Allowance(d, atTick) ==
  IF atTick THEN d \div MonitorPeriod ELSE (d + MonitorPeriod - 1) \div MonitorPeriod

\* Pending callbacks counted by allowance
Allowances == 0..(MaxBackoff \div MonitorPeriod)
NoneOf == [a \in Allowances |-> 0]
Count(b) == b[0] + b[1] + b[2]
Add(b, a) == [b EXCEPT ![a] = @ + 1]
Remove(b, a) == [b EXCEPT ![a] = @ - 1]
\* after a monitor tick every pending callback has one tick less to see
Shift(b) == [a \in Allowances |-> IF a + 1 \in Allowances THEN b[a + 1] ELSE 0]

RECURSIVE Pow2(_)
Pow2(n) == IF n = 0 THEN 1 ELSE 2 * Pow2(n - 1)

\* ---------------------------------------------------------------- sockets
\* A socket made by connectToBackend: its readyState, whether the 30 s
\* handshake timer set with it is outstanding (and the monitor ticks that
\* timer may still see), and whether start() awaits the promise made with it.
NewSocket(byStart) ==
  [readyState |-> "CONNECTING", timer |-> TRUE,
   allow |-> Allowance(HandshakeTimeoutMs, FALSE), awaited |-> byStart]

\* Nothing can happen to a closed socket whose timer is gone.
Dead(x) == x.readyState = "CLOSED" /\ ~x.timer

\* The sockets as a pair: this.socket and the others
Pair == [cur |-> socket, old |-> others]
ThisSocket(P) == P.cur[1]

\* The sockets an event can belong to: <<"this", x>> or <<"other", x>>
Selectable ==
  {<<"this", socket[1]>> : i \in 1..Len(socket)} \cup
  {<<"other", x>> : x \in BagToSet(others)}

Which(sel) == sel[1]
Sock(sel) == sel[2]

\* Socket x (this.socket or one of the others) becomes y
Replace(P, which, x, y) ==
  IF which = "this" THEN [P EXCEPT !.cur = <<y>>]
  ELSE [P EXCEPT !.old = IF Dead(y) THEN P.old (-) SetToBag({x})
                                    ELSE (P.old (-) SetToBag({x})) (+) SetToBag({y})]

\* this.socket = s for a new socket s: the socket it referred to joins the others
Supersede(P, s) ==
  [cur |-> <<s>>,
   old |-> IF P.cur = <<>> \/ Dead(ThisSocket(P)) THEN P.old
                                                   ELSE P.old (+) SetToBag({ThisSocket(P)})]

\* this.socket = null
Forget(P) ==
  [cur |-> <<>>,
   old |-> IF P.cur = <<>> \/ Dead(ThisSocket(P)) THEN P.old
                                                   ELSE P.old (+) SetToBag({ThisSocket(P)})]

NumSockets(P) ==
  BagCardinality(P.old) + (IF P.cur = <<>> \/ Dead(ThisSocket(P)) THEN 0 ELSE 1)

\* WebSocket.close(): a connecting or open socket starts closing; its close
\* event follows later.  Closing or closed sockets are left as they are.
CloseCall(x) ==
  IF x.readyState \in {"CONNECTING", "OPEN"} THEN [x EXCEPT !.readyState = "CLOSING"] ELSE x

\* this.socket.close(), when this.socket is not null
CloseThis(P) == IF P.cur = <<>> THEN P ELSE [P EXCEPT !.cur = <<CloseCall(ThisSocket(P))>>]

\* ------------------------------------------------------------ constructor
Init ==
  /\ startPc = "new"
  /\ isConnected = FALSE
  /\ isBackendConnected = FALSE
  /\ connectionAttempts = 0
  /\ socket = <<>>
  /\ others = EmptyBag
  /\ reconnectTimers = NoneOf
  /\ probes = NoneOf
  /\ connectionMonitor = FALSE
  /\ giveUps = 0
  /\ outMsg = <<>>
  /\ scheduleLog = <<>>
  /\ currentAnimation = "idle"
  /\ currentRotation = 0
  /\ currentPosition = <<0, 0, 0>>
  /\ isMoving = FALSE
  /\ isSpeaking = FALSE
  /\ isThinking = FALSE
  /\ browserActive = FALSE
  /\ sinceInteraction = 0
  /\ idleAnimationInterval = FALSE
  /\ lookAroundInterval = FALSE
  /\ dwellTimers = 0
  /\ activeModel = "anthropic"
  /\ chatHistory = <<>>
  /\ moveTimers = 0
  /\ greetTimers = 0
  /\ msgLog = <<>>

\* ---------------------------------------------------------------- helpers
\* setAnimation (a no-op when the animation is the current one)
SetAnimation(cur, animation) == IF cur = animation THEN cur ELSE animation

\* An interaction window that includes its end
IsInteractingInclusive == sinceInteraction <= InteractionTimeout

\* isInteracting
IsInteracting == sinceInteraction < InteractionTimeout

\* checkBackendStatus: the probe's answer for a host and the HTTP outcome
CheckBackendStatus(host, resp) ==
  IF host \in {"localhost", "127.0.0.1"} THEN resp = "ok" ELSE TRUE

\* config.popeBackendUrl's host (the default)
ConfigHost == "localhost"
ProbeResponses == {"ok", "notok", "timeout", "error"}

\* sendStateToBackend: the messages it sends, given the sockets at the
\* moment of the call
SendStateToBackend(P) ==
  IF P.cur = <<>> \/ ThisSocket(P).readyState # "OPEN" THEN <<>>
  ELSE << [type |-> "STATE_UPDATE",
           position |-> currentPosition, rotation |-> currentRotation,
           animation |-> currentAnimation, interacting |-> IsInteracting] >>

\* Backoff without its cap, and Backoff with the exponent of the next attempt
BackoffUncapped(n, j) == ((baseDelay * j) \div 2000) * Pow2(n)
BackoffNextAttempt(n, j) == Min(MaxBackoff, ((baseDelay * j) \div 1000) * Pow2(n))

\* backoffTime of scheduleReconnect, in milliseconds, for attempt counter n
\* and jitter j/1000: min(60000, baseDelay * 2^(n-1) * jitter).  Math.pow(2,
\* n - 1) is 1/2 for n = 0, hence the division by 2000; it is exact for the
\* even j of JitterSet and is done first to keep the product small.
Backoff(n, j) == Min(MaxBackoff, ((baseDelay * j) \div 2000) * Pow2(n))

\* scheduleReconnect's cutoff
ShouldRetry(n) == ~(n >= MAX_ATTEMPTS)

\* scheduleReconnect called with the counter at n: either the give-up
\* diagnostic, or one more reconnect timer with a jittered delay.
ScheduleReconnect(n, timers, atTick) ==
  IF ~ShouldRetry(n)
  THEN /\ giveUps' = Min(giveUps + 1, MaxDiag)
       /\ reconnectTimers' = timers
       /\ scheduleLog' = << [attempts |-> n, retry |-> FALSE, delay |-> 0,
                             by |-> IF atTick THEN "monitor" ELSE "onclose"] >>
  ELSE /\ Count(timers) + Count(probes) < MaxPending
       /\ giveUps' = giveUps
       /\ \E j \in JitterSet :
            /\ reconnectTimers' = Add(timers, Allowance(Backoff(n, j), atTick))
            /\ scheduleLog' = << [attempts |-> n, retry |-> TRUE,
                                  delay |-> Backoff(n, j),
                                  by |-> IF atTick THEN "monitor" ELSE "onclose"] >>

\* A start() that begins the idle behaviours only with the channel up
StartContinuationNeedsChannel(resume) ==
  /\ startPc' = IF resume THEN "running" ELSE startPc
  /\ connectionMonitor' = IF resume THEN TRUE ELSE connectionMonitor
  /\ idleAnimationInterval' = IF resume THEN isBackendConnected
                                         ELSE idleAnimationInterval
  /\ lookAroundInterval' = IF resume THEN isBackendConnected ELSE lookAroundInterval
  /\ currentAnimation' = IF resume THEN SetAnimation(currentAnimation, "idle")
                                    ELSE currentAnimation
  /\ isConnected' = IF resume THEN TRUE ELSE isConnected

\* The rest of start() once the await of connectToBackend has settled
\* (resume), or nothing at all.
StartContinuation(resume) ==
  /\ startPc' = IF resume THEN "running" ELSE startPc
  /\ connectionMonitor' = IF resume THEN TRUE ELSE connectionMonitor
  /\ idleAnimationInterval' = IF resume THEN TRUE ELSE idleAnimationInterval
  /\ lookAroundInterval' = IF resume THEN TRUE ELSE lookAroundInterval
  /\ currentAnimation' = IF resume THEN SetAnimation(currentAnimation, "idle")
                                    ELSE currentAnimation
  /\ isConnected' = IF resume THEN TRUE ELSE isConnected

restLocal == <<currentRotation, currentPosition, isMoving, isSpeaking,
               isThinking, browserActive, sinceInteraction, dwellTimers,
               activeModel, chatHistory, moveTimers, greetTimers>>

Callers == {"start", "reconnect"}

\* --------------------------------------------------------------- actions
\* start(): loadCharacter, the counter's initialisation, and connectToBackend
\* up to its await of the probe.
StartCall ==
  /\ startPc = "new"
  /\ startPc' = "probing"
  /\ connectionAttempts' = 0 + 1
  /\ giveUps' = 0
  /\ outMsg' = <<>>
  /\ msgLog' = <<>>
  /\ scheduleLog' = <<>>
  /\ UNCHANGED <<isBackendConnected, socket, others, reconnectTimers, probes>>
  /\ UNCHANGED <<isConnected, connectionMonitor, idleAnimationInterval,
                 lookAroundInterval>>
  /\ UNCHANGED localVars

\* connectToBackend after the probe answered "unavailable": the call rejects
\* and no socket is made.  start() catches the rejection and carries on; the
\* reconnect timer's callback catches it and only logs.
ProbeFailed(caller, resp) ==
  /\ ~CheckBackendStatus(ConfigHost, resp)
  /\ IF caller = "start"
     THEN startPc = "probing" /\ probes' = probes
     ELSE \E a \in Allowances : probes[a] > 0 /\ probes' = Remove(probes, a)
  /\ StartContinuation(caller = "start")
  /\ outMsg' = <<>>
  /\ msgLog' = <<>>
  /\ scheduleLog' = <<>>
  /\ UNCHANGED <<isBackendConnected, connectionAttempts, socket, others,
                 reconnectTimers, giveUps>>
  /\ UNCHANGED restLocal

\* connectToBackend after the probe answered "available": a new socket with
\* its handlers and its 30 s handshake timer; the caller awaits its promise.
ProbeOk(caller, resp) ==
  /\ CheckBackendStatus(ConfigHost, resp)
  /\ IF caller = "start"
     THEN startPc = "probing" /\ probes' = probes
     ELSE \E a \in Allowances : probes[a] > 0 /\ probes' = Remove(probes, a)
  /\ LET P == Supersede(Pair, NewSocket(caller = "start")) IN
       /\ NumSockets(P) <= MaxSockets
       /\ socket' = P.cur
       /\ others' = P.old
  /\ startPc' = IF caller = "start" THEN "awaiting" ELSE startPc
  /\ outMsg' = <<>>
  /\ msgLog' = <<>>
  /\ scheduleLog' = <<>>
  /\ UNCHANGED <<isBackendConnected, connectionAttempts, reconnectTimers, giveUps>>
  /\ UNCHANGED <<isConnected, connectionMonitor, idleAnimationInterval,
                 lookAroundInterval>>
  /\ UNCHANGED localVars

\* socket.onopen of socket x
SocketOpen(sel) ==
  /\ Sock(sel).readyState = "CONNECTING"
  /\ LET P == Replace(Pair, Which(sel), Sock(sel),
                      [Sock(sel) EXCEPT !.readyState = "OPEN", !.timer = FALSE,
                                !.allow = 0, !.awaited = FALSE]) IN
       /\ socket' = P.cur
       /\ others' = P.old
       /\ outMsg' = SendStateToBackend(P)
       /\ msgLog' = <<>>
  /\ isBackendConnected' = TRUE
  /\ connectionAttempts' = 0
  /\ giveUps' = 0
  /\ StartContinuation(Sock(sel).awaited)
  /\ scheduleLog' = <<>>
  /\ UNCHANGED <<reconnectTimers, probes>>
  /\ UNCHANGED restLocal

\* The 30 s handshake timer set by the connectToBackend call that made x
HandshakeTimeout(sel) ==
  /\ Sock(sel).timer
  /\ IF ~isBackendConnected
     THEN /\ LET P == CloseThis(Replace(Pair, Which(sel), Sock(sel),
                        [Sock(sel) EXCEPT !.timer = FALSE, !.allow = 0, !.awaited = FALSE])) IN
               socket' = P.cur /\ others' = P.old
          /\ StartContinuation(Sock(sel).awaited)
     ELSE /\ LET P == Replace(Pair, Which(sel), Sock(sel),
                        [Sock(sel) EXCEPT !.timer = FALSE, !.allow = 0]) IN
               socket' = P.cur /\ others' = P.old
          /\ StartContinuation(FALSE)
  /\ outMsg' = <<>>
  /\ msgLog' = <<>>
  /\ scheduleLog' = <<>>
  /\ UNCHANGED <<isBackendConnected, connectionAttempts, reconnectTimers, probes,
                 giveUps>>
  /\ UNCHANGED restLocal

\* socket.onerror of socket x (the WebSocket delivers close after it)
SocketError(sel) ==
  /\ Sock(sel).readyState \in {"CONNECTING", "OPEN"}
  /\ LET P == Replace(Pair, Which(sel), Sock(sel), [Sock(sel) EXCEPT !.readyState = "CLOSING"]) IN
       socket' = P.cur /\ others' = P.old
  /\ isBackendConnected' = FALSE
  /\ outMsg' = <<>>
  /\ msgLog' = <<>>
  /\ scheduleLog' = <<>>
  /\ UNCHANGED <<connectionAttempts, reconnectTimers, probes, giveUps>>
  /\ UNCHANGED lifeVars
  /\ UNCHANGED localVars

\* socket.onclose of socket x: the peer closed an open socket, or a closing
\* socket finished closing
SocketClose(sel) ==
  /\ Sock(sel).readyState \in {"OPEN", "CLOSING"}
  /\ LET P == Replace(Pair, Which(sel), Sock(sel), [Sock(sel) EXCEPT !.readyState = "CLOSED"]) IN
       socket' = P.cur /\ others' = P.old
  /\ isBackendConnected' = FALSE
  /\ ScheduleReconnect(connectionAttempts, reconnectTimers, FALSE)
  /\ outMsg' = <<>>
  /\ msgLog' = <<>>
  /\ UNCHANGED <<connectionAttempts, probes>>
  /\ UNCHANGED lifeVars
  /\ UNCHANGED localVars

\* The deferred retry of scheduleReconnect, up to connectToBackend's await
\* of the probe
ReconnectFire ==
  /\ \E a \in Allowances :
       reconnectTimers[a] > 0 /\ reconnectTimers' = Remove(reconnectTimers, a)
  /\ IF ~isBackendConnected
     THEN /\ connectionAttempts' = connectionAttempts + 1
          /\ probes' = Add(probes, Allowance(ProbeTimeoutMs, FALSE))
     ELSE UNCHANGED <<connectionAttempts, probes>>
  /\ outMsg' = <<>>
  /\ msgLog' = <<>>
  /\ scheduleLog' = <<>>
  /\ UNCHANGED <<isBackendConnected, socket, others, giveUps>>
  /\ UNCHANGED lifeVars
  /\ UNCHANGED localVars

\* One monitor tick passes over socket x's handshake timer
Tick(x) == IF x.timer THEN [x EXCEPT !.allow = @ - 1] ELSE x
TickAll(B) ==
  LET S == BagToSet(B) IN
    [y \in {Tick(x) : x \in S} |-> CopiesIn(CHOOSE x \in S : Tick(x) = y, B)]

\* The connection monitor's 30 s tick.  Callbacks that were due before it
\* have run.
MonitorTick ==
  /\ connectionMonitor
  /\ reconnectTimers[0] = 0
  /\ probes[0] = 0
  /\ \A sel \in Selectable : sel[2].timer => sel[2].allow > 0
  /\ socket' = IF socket = <<>> THEN socket ELSE <<Tick(socket[1])>>
  /\ others' = TickAll(others)
  /\ probes' = Shift(probes)
  /\ IF ~isBackendConnected /\ isConnected
     THEN ScheduleReconnect(connectionAttempts, Shift(reconnectTimers), TRUE)
     ELSE /\ giveUps' = giveUps
          /\ reconnectTimers' = Shift(reconnectTimers)
          /\ scheduleLog' = <<>>
  /\ outMsg' = <<>>
  /\ msgLog' = <<>>
  /\ UNCHANGED <<isBackendConnected, connectionAttempts>>
  /\ UNCHANGED lifeVars
  /\ UNCHANGED localVars

\* stop(), called once start() has returned
Stop ==
  /\ startPc = "running"
  /\ startPc' = "stopped"
  /\ idleAnimationInterval' = FALSE
  /\ lookAroundInterval' = FALSE
  /\ connectionMonitor' = FALSE
  /\ LET P == Forget(CloseThis(Pair)) IN
       socket' = P.cur /\ others' = P.old
  /\ isConnected' = FALSE
  /\ outMsg' = <<>>
  /\ msgLog' = <<>>
  /\ scheduleLog' = <<>>
  /\ UNCHANGED <<isBackendConnected, connectionAttempts, reconnectTimers, probes,
                 giveUps>>
  /\ UNCHANGED localVars

\* The idle cycle's choices, and the look-around yaw in degrees:
\* Math.random() * 90 - 45 is in [-45, 45).
IdleAnimations == {"idle", "reflection", "prayer"}
LookAngles == {-45, 0, 44}

\* The guard of the idle cycle and of its dwell timer
IdleAllowed == ~IsInteracting /\ ~isMoving /\ ~isSpeaking /\ ~isThinking

\* idleAnimationInterval's 45 s tick.  The 5 s dwell timer of the previous
\* tick has fired by then, so at most one is outstanding.
IdleTick ==
  /\ idleAnimationInterval
  /\ dwellTimers = 0
  /\ IF IdleAllowed
     THEN /\ \E a \in IdleAnimations : currentAnimation' = SetAnimation(currentAnimation, a)
          /\ dwellTimers' = dwellTimers + 1
     ELSE UNCHANGED <<currentAnimation, dwellTimers>>
  /\ outMsg' = <<>>
  /\ msgLog' = <<>>
  /\ scheduleLog' = <<>>
  /\ UNCHANGED connVars
  /\ UNCHANGED lifeVars
  /\ UNCHANGED <<currentRotation, currentPosition, isMoving, isSpeaking, isThinking,
                 browserActive, sinceInteraction, activeModel, chatHistory,
                 moveTimers, greetTimers>>

\* The 5 s dwell timer set by an idle tick
DwellFire ==
  /\ dwellTimers > 0
  /\ dwellTimers' = dwellTimers - 1
  /\ currentAnimation' = IF IdleAllowed THEN SetAnimation(currentAnimation, "idle")
                                        ELSE currentAnimation
  /\ outMsg' = <<>>
  /\ msgLog' = <<>>
  /\ scheduleLog' = <<>>
  /\ UNCHANGED connVars
  /\ UNCHANGED lifeVars
  /\ UNCHANGED <<currentRotation, currentPosition, isMoving, isSpeaking, isThinking,
                 browserActive, sinceInteraction, activeModel, chatHistory,
                 moveTimers, greetTimers>>

\* A look-around tick that turns by lookAt, which tells the backend
LookAroundByLookAt ==
  /\ lookAroundInterval
  /\ IF ~IsInteracting /\ ~isMoving
     THEN \E angle \in LookAngles :
            /\ currentRotation' = angle
            /\ outMsg' = IF socket # <<>> /\ socket[1].readyState = "OPEN"
                         THEN << [type |-> "ACTION", action |-> "rotate",
                                  rotation |-> angle] >>
                         ELSE <<>>
     ELSE UNCHANGED currentRotation /\ outMsg' = <<>>
  /\ msgLog' = <<>>
  /\ scheduleLog' = <<>>
  /\ UNCHANGED connVars
  /\ UNCHANGED lifeVars
  /\ UNCHANGED <<currentAnimation, currentPosition, isMoving, isSpeaking, isThinking,
                 browserActive, sinceInteraction, dwellTimers, activeModel,
                 chatHistory, moveTimers, greetTimers>>

\* lookAroundInterval's 25 s tick (rotateTo with a random yaw)
LookAroundTick ==
  /\ lookAroundInterval
  /\ IF ~IsInteracting /\ ~isMoving
     THEN \E angle \in LookAngles : currentRotation' = angle
     ELSE UNCHANGED currentRotation
  /\ outMsg' = <<>>
  /\ msgLog' = <<>>
  /\ scheduleLog' = <<>>
  /\ UNCHANGED connVars
  /\ UNCHANGED lifeVars
  /\ UNCHANGED <<currentAnimation, currentPosition, isMoving, isSpeaking, isThinking,
                 browserActive, sinceInteraction, dwellTimers, activeModel,
                 chatHistory, moveTimers, greetTimers>>

\* Time passes: Date.now() grows, and with it the time since lastInteraction
\* (kept up to the interaction window, beyond which isInteracting is false
\* whatever the value).
AdvanceTime ==
  /\ sinceInteraction < InteractionTimeout
  /\ \E d \in TimeSteps : sinceInteraction' = Min(sinceInteraction + d, InteractionTimeout)
  /\ outMsg' = <<>>
  /\ msgLog' = <<>>
  /\ scheduleLog' = <<>>
  /\ UNCHANGED connVars
  /\ UNCHANGED lifeVars
  /\ UNCHANGED <<currentAnimation, currentRotation, currentPosition, isMoving,
                 isSpeaking, isThinking, browserActive, dwellTimers, activeModel,
                 chatHistory, moveTimers, greetTimers>>

\* ------------------------------------------------- messages and movement
\* The part of the agent that updateStateFromBackend and its callees read
\* and write, with the side effects they cause on the way (animation
\* changes, movements and rotations started), in order.
Local ==
  [position |-> currentPosition, rotation |-> currentRotation,
   animation |-> currentAnimation, isMoving |-> isMoving,
   isSpeaking |-> isSpeaking, isThinking |-> isThinking,
   browserActive |-> browserActive, activeModel |-> activeModel,
   moveTimers |-> moveTimers, effects |-> <<>>]

\* A setAnimation without the test for the current animation
SetAnimAlways(s, a) ==
  [s EXCEPT !.animation = a, !.effects = Append(@, <<"animation", a>>)]

\* A setAnimation that sets nothing
SetAnimKeeps(s, a) == s

\* setAnimation on such a state
SetAnim(s, a) ==
  [s EXCEPT !.animation = SetAnimation(s.animation, a),
            !.effects = IF s.animation = a THEN @ ELSE Append(@, <<"animation", a>>)]

\* moveToPosition: the flag, the walking animation, the position and the
\* 1 s completion timer
MoveToPosition(s, p) ==
  [SetAnim([s EXCEPT !.isMoving = TRUE, !.effects = Append(@, <<"move", p>>)], "walking")
     EXCEPT !.position = p, !.moveTimers = @ + 1]

\* rotateTo
RotateTo(s, r) == [s EXCEPT !.rotation = r, !.effects = Append(@, <<"rotate", r>>)]

\* A field of a partial update is present
Has(u, f) == f \in DOMAIN u

\* updateStateFromBackend, field by field in the order of the code
UpdateStateFromBackend(s, u) ==
  LET s1 == IF Has(u, "position") /\ u.position # s.position
            THEN MoveToPosition([s EXCEPT !.position = u.position], u.position)
            ELSE s
      s2 == IF Has(u, "rotation") /\ u.rotation # s1.rotation
            THEN RotateTo([s1 EXCEPT !.rotation = u.rotation], u.rotation)
            ELSE s1
      s3 == IF ~Has(u, "speaking") THEN s2
            ELSE LET t == [s2 EXCEPT !.isSpeaking = u.speaking] IN
                   IF u.speaking THEN SetAnim(t, "talking")
                   ELSE IF ~t.isMoving /\ ~t.isThinking THEN SetAnim(t, "idle")
                   ELSE t
      s4 == IF ~Has(u, "thinking") THEN s3
            ELSE LET t == [s3 EXCEPT !.isThinking = u.thinking] IN
                   IF u.thinking THEN SetAnim(t, "thinking")
                   ELSE IF ~t.isMoving /\ ~t.isSpeaking THEN SetAnim(t, "idle")
                   ELSE t
      s5 == IF ~Has(u, "browser_active") THEN s4
            ELSE LET t == [s4 EXCEPT !.browserActive = u.browser_active] IN
                   IF u.browser_active THEN SetAnim(t, "browsing")
                   ELSE IF ~t.isMoving /\ ~t.isSpeaking /\ ~t.isThinking
                        THEN SetAnim(t, "idle")
                   ELSE t
      s6 == IF Has(u, "current_model") THEN [s5 EXCEPT !.activeModel = u.current_model]
            ELSE s5
  IN IF Has(u, "animations") /\ Len(u.animations) > 0 THEN SetAnim(s6, u.animations[1])
     ELSE s6

\* Positions and a rotation (a yaw, in degrees) the backend sends
Origin == <<0, 0, 0>>
Elsewhere == <<1, 0, 1>>
BackendYaw == 90

\* Partial state updates
Updates ==
  { [position |-> Elsewhere], [position |-> Origin], [rotation |-> BackendYaw],
    [speaking |-> TRUE], [speaking |-> FALSE], [thinking |-> TRUE], [thinking |-> FALSE],
    [browser_active |-> TRUE], [browser_active |-> FALSE],
    [speaking |-> TRUE, thinking |-> TRUE],
    [position |-> Elsewhere, speaking |-> TRUE],
    [animations |-> <<"wave">>] }

\* What a socket delivers: text that is not JSON, or the JSON of a value
Payloads ==
  { [json |-> FALSE] } \cup
  { [json |-> TRUE, value |-> v] :
      v \in { [null |-> TRUE], [note |-> "no type"], [type |-> "PING"],
              [type |-> "STATE_UPDATE"], [type |-> "AUDIO", data |-> "base64"],
              [type |-> "BROWSER_CONTENT"], [type |-> "PHYSICS_UPDATE"],
              [type |-> "PHYSICS_UPDATE", objects |-> "some"] }
           \cup { [type |-> "STATE_UPDATE", state |-> u] : u \in Updates } }

\* The message types handleBackendMessage knows
KnownTypes == {"STATE_UPDATE", "AUDIO", "BROWSER_CONTENT", "PHYSICS_UPDATE"}

\* A dispatch that hands every parsed message to a handler
DispatchAll(s, raw) ==
  IF ~raw.json \/ Has(raw.value, "null")
  THEN [state |-> s, handler |-> "none", threw |-> TRUE]
  ELSE [state |-> SetAnim(s, "talking"), handler |-> "playAudio", threw |-> FALSE]

\* The body of handleBackendMessage's try block on state s: the state it
\* leaves, the handler it dispatched to, and whether it threw (JSON.parse on
\* bad text, a property read on null or undefined)
Dispatch(s, raw) ==
  IF ~raw.json THEN [state |-> s, handler |-> "none", threw |-> TRUE]
  ELSE IF Has(raw.value, "null") THEN [state |-> s, handler |-> "none", threw |-> TRUE]
  ELSE IF ~Has(raw.value, "type") \/ raw.value.type \notin KnownTypes
       THEN [state |-> s, handler |-> "none", threw |-> FALSE]
  ELSE IF raw.value.type = "STATE_UPDATE"
       THEN IF Has(raw.value, "state")
            THEN [state |-> UpdateStateFromBackend(s, raw.value.state),
                  handler |-> "updateStateFromBackend", threw |-> FALSE]
            ELSE [state |-> s, handler |-> "updateStateFromBackend", threw |-> TRUE]
  ELSE IF raw.value.type = "AUDIO"
       THEN [state |-> s, handler |-> "playAudio", threw |-> FALSE]
  ELSE IF raw.value.type = "BROWSER_CONTENT"
       THEN [state |-> s, handler |-> "log", threw |-> FALSE]
  ELSE [state |-> s, handler |-> "updatePhysicsObjects",
        threw |-> ~Has(raw.value, "objects")]

\* A handler without the catch
Uncaught(r) ==
  [state |-> r.state, handler |-> r.handler, raised |-> r.threw, logged |-> FALSE]

\* handleBackendMessage's catch: what was thrown is logged, not raised
Caught(r) ==
  [state |-> r.state, handler |-> r.handler, raised |-> FALSE, logged |-> r.threw]

\* handleBackendMessage
HandleBackendMessage(s, raw) == Caught(Dispatch(s, raw))

\* socket.onmessage of an open socket
BackendMessage(raw) ==
  /\ \E sel \in Selectable : Sock(sel).readyState = "OPEN"
  /\ \E r \in {HandleBackendMessage(Local, raw)} :
       /\ r.state.moveTimers <= MaxMoves
       /\ currentPosition' = r.state.position
       /\ currentRotation' = r.state.rotation
       /\ currentAnimation' = r.state.animation
       /\ isMoving' = r.state.isMoving
       /\ isSpeaking' = r.state.isSpeaking
       /\ isThinking' = r.state.isThinking
       /\ browserActive' = r.state.browserActive
       /\ activeModel' = r.state.activeModel
       /\ moveTimers' = r.state.moveTimers
       /\ msgLog' = << [handler |-> r.handler, raised |-> r.raised, logged |-> r.logged] >>
  /\ outMsg' = <<>>
  /\ scheduleLog' = <<>>
  /\ UNCHANGED <<sinceInteraction, dwellTimers, chatHistory, greetTimers>>
  /\ UNCHANGED connVars
  /\ UNCHANGED lifeVars

\* A completion timer that clears the flag and leaves the animation
MoveCompleteKeepsAnimation ==
  /\ moveTimers > 0
  /\ moveTimers' = moveTimers - 1
  /\ isMoving' = FALSE
  /\ outMsg' = <<>>
  /\ msgLog' = <<>>
  /\ scheduleLog' = <<>>
  /\ UNCHANGED <<currentAnimation, currentRotation, currentPosition, isSpeaking,
                 isThinking, browserActive, sinceInteraction, dwellTimers,
                 activeModel, chatHistory, greetTimers>>
  /\ UNCHANGED connVars
  /\ UNCHANGED lifeVars

\* The 1 s completion timer of moveToPosition
MoveComplete ==
  /\ moveTimers > 0
  /\ moveTimers' = moveTimers - 1
  /\ isMoving' = FALSE
  /\ currentAnimation' = IF ~isSpeaking /\ ~isThinking /\ ~browserActive
                         THEN SetAnimation(currentAnimation, "idle")
                         ELSE currentAnimation
  /\ outMsg' = <<>>
  /\ msgLog' = <<>>
  /\ scheduleLog' = <<>>
  /\ UNCHANGED <<currentRotation, currentPosition, isSpeaking, isThinking, browserActive,
                 sinceInteraction, dwellTimers, activeModel, chatHistory, greetTimers>>
  /\ UNCHANGED connVars
  /\ UNCHANGED lifeVars

\* Math.atan2(dx, dz) in degrees, for directions along an axis or a diagonal
Yaw(dx, dz) ==
  IF dx = 0 THEN (IF dz > 0 THEN 0 ELSE 180)
  ELSE IF dx > 0 THEN (IF dz > 0 THEN 45 ELSE IF dz = 0 THEN 90 ELSE 135)
  ELSE (IF dz > 0 THEN -45 ELSE IF dz = 0 THEN -90 ELSE -135)

\* Where a player can stand, and the greeting getRandomGreeting picks
PlayerPositions == {Elsewhere}
Greetings == {"Peace be with you, my child."}

\* A condition of sending that only wants a socket
CanSendUnlessNull == socket # <<>>

\* this.socket is open, the condition of every send
CanSend == socket # <<>> /\ socket[1].readyState = "OPEN"

\* An onPlayerNearby that greets whether the agent is interacting or not
PlayerNearbyAlwaysGreets(pos, greeting) ==
  /\ startPc = "running"
  /\ greetTimers = 0
  /\ LET dx == pos[1] - currentPosition[1]
         dz == pos[3] - currentPosition[3]
         turns == dx # 0 \/ dz # 0
         rot == IF turns THEN Yaw(dx, dz) ELSE currentRotation
         anim == SetAnimation(currentAnimation, "blessing")
     IN /\ currentRotation' = rot
        /\ currentAnimation' = anim
        /\ Len(chatHistory) < MaxChat
        /\ chatHistory' = IF CanSend
                          THEN Append(chatHistory, [sender |-> "user", text |-> greeting])
                          ELSE chatHistory
        /\ sinceInteraction' = 0
        /\ greetTimers' = greetTimers + 1
        /\ outMsg' = IF ~CanSend THEN <<>>
                     ELSE (IF turns THEN << [type |-> "ACTION", action |-> "rotate",
                                             rotation |-> rot] >>
                                    ELSE <<>>)
                          \o << [type |-> "VOICE_INPUT", text |-> greeting],
                                [type |-> "STATE_UPDATE",
                                 position |-> currentPosition, rotation |-> rot,
                                 animation |-> anim, interacting |-> TRUE] >>
  /\ msgLog' = <<>>
  /\ scheduleLog' = <<>>
  /\ UNCHANGED <<currentPosition, isMoving, isSpeaking, isThinking, browserActive,
                 dwellTimers, activeModel, moveTimers>>
  /\ UNCHANGED connVars
  /\ UNCHANGED lifeVars

\* onPlayerNearby: when not interacting, lookAt (with the rotate action sent
\* to the backend), the blessing animation, the greeting as voice input,
\* updateInteraction (with its state push) and the 3 s reset timer.  The
\* previous greeting is at least 60 s back, so its timer has fired.  Players
\* are reported to an agent that has been started.
PlayerNearby(pos, greeting) ==
  /\ startPc = "running"
  /\ greetTimers = 0
  /\ IF IsInteracting
     THEN /\ outMsg' = <<>>
          /\ UNCHANGED <<currentRotation, currentAnimation, chatHistory,
                         sinceInteraction, greetTimers>>
     ELSE LET dx == pos[1] - currentPosition[1]
              dz == pos[3] - currentPosition[3]
              turns == dx # 0 \/ dz # 0
              rot == IF turns THEN Yaw(dx, dz) ELSE currentRotation
              anim == SetAnimation(currentAnimation, "blessing")
          IN /\ currentRotation' = rot
             /\ currentAnimation' = anim
             /\ Len(chatHistory) < MaxChat
             /\ chatHistory' = IF CanSend
                               THEN Append(chatHistory, [sender |-> "user", text |-> greeting])
                               ELSE chatHistory
             /\ sinceInteraction' = 0
             /\ greetTimers' = greetTimers + 1
             /\ outMsg' = IF ~CanSend THEN <<>>
                          ELSE (IF turns THEN << [type |-> "ACTION", action |-> "rotate",
                                                  rotation |-> rot] >>
                                         ELSE <<>>)
                               \o << [type |-> "VOICE_INPUT", text |-> greeting],
                                     [type |-> "STATE_UPDATE",
                                      position |-> currentPosition, rotation |-> rot,
                                      animation |-> anim, interacting |-> TRUE] >>
  /\ msgLog' = <<>>
  /\ scheduleLog' = <<>>
  /\ UNCHANGED <<currentPosition, isMoving, isSpeaking, isThinking, browserActive,
                 dwellTimers, activeModel, moveTimers>>
  /\ UNCHANGED connVars
  /\ UNCHANGED lifeVars

\* The 3 s reset timer of onPlayerNearby
GreetFire ==
  /\ greetTimers > 0
  /\ greetTimers' = greetTimers - 1
  /\ currentAnimation' = IF ~isSpeaking /\ ~isThinking
                         THEN SetAnimation(currentAnimation, "idle")
                         ELSE currentAnimation
  /\ outMsg' = <<>>
  /\ msgLog' = <<>>
  /\ scheduleLog' = <<>>
  /\ UNCHANGED <<currentRotation, currentPosition, isMoving, isSpeaking, isThinking,
                 browserActive, sinceInteraction, dwellTimers, activeModel,
                 chatHistory, moveTimers>>
  /\ UNCHANGED connVars
  /\ UNCHANGED lifeVars

\* The chat feed's records: the agent's own player id and another's, and a
\* message body
SelfId == "pope"
FromIds == {SelfId, "visitor"}
ChatBodies == {"Bless me, father."}

\* A sendVoiceInput that puts the entry at the head of the history
SendVoiceInputPrepends(text) ==
  IF ~CanSend THEN [sent |-> <<>>, history |-> chatHistory]
  ELSE [sent |-> << [type |-> "VOICE_INPUT", text |-> text] >>,
        history |-> << [sender |-> "user", text |-> text] >> \o chatHistory]

\* A sendVoiceInput that sends nothing
SendVoiceInputDrops(text) == [sent |-> <<>>, history |-> chatHistory]

\* sendVoiceInput on this.socket: the message sent and the chatHistory that
\* results (nothing and the same history unless the socket is open)
SendVoiceInput(text) ==
  IF ~CanSend THEN [sent |-> <<>>, history |-> chatHistory]
  ELSE [sent |-> << [type |-> "VOICE_INPUT", text |-> text] >>,
        history |-> Append(chatHistory, [sender |-> "user", text |-> text])]

\* What handleIncomingChat does with a record of another player
ProcessChat(body) ==
  \E v \in {SendVoiceInput(body)} :
    /\ Len(v.history) <= MaxChat
    /\ chatHistory' = v.history
    /\ sinceInteraction' = 0
    /\ outMsg' = v.sent \o
                   (IF ~CanSend THEN <<>>
                    ELSE << [type |-> "STATE_UPDATE",
                             position |-> currentPosition,
                             rotation |-> currentRotation,
                             animation |-> currentAnimation,
                             interacting |-> TRUE] >>)

\* A handleIncomingChat that processes the agent's own records too
HandleEveryChat(fromId, body) ==
  /\ startPc \in {"running", "stopped"}
  /\ ProcessChat(body)
  /\ msgLog' = << [handler |-> IF fromId = SelfId THEN "ignored" ELSE "sendVoiceInput",
                   raised |-> FALSE, logged |-> FALSE] >>
  /\ scheduleLog' = <<>>
  /\ UNCHANGED <<currentAnimation, currentRotation, currentPosition, isMoving,
                 isSpeaking, isThinking, browserActive, dwellTimers, activeModel,
                 moveTimers, greetTimers>>
  /\ UNCHANGED connVars
  /\ UNCHANGED lifeVars

\* handleIncomingChat, subscribed to the chat feed by start() once the await
\* of connectToBackend has settled, and never unsubscribed: a record of the
\* agent's own is ignored, any other is sent as voice input and marks the
\* interaction (updateInteraction, with its state push).
HandleIncomingChat(fromId, body) ==
  /\ startPc \in {"running", "stopped"}
  /\ IF fromId = SelfId
     THEN /\ outMsg' = <<>>
          /\ UNCHANGED <<chatHistory, sinceInteraction>>
     ELSE ProcessChat(body)
  /\ msgLog' = << [handler |-> IF fromId = SelfId THEN "ignored" ELSE "sendVoiceInput",
                   raised |-> FALSE, logged |-> FALSE] >>
  /\ scheduleLog' = <<>>
  /\ UNCHANGED <<currentAnimation, currentRotation, currentPosition, isMoving,
                 isSpeaking, isThinking, browserActive, dwellTimers, activeModel,
                 moveTimers, greetTimers>>
  /\ UNCHANGED connVars
  /\ UNCHANGED lifeVars

\* ---------------------------------------------------------- specification
Next ==
  \/ StartCall
  \/ \E c \in Callers, resp \in ProbeResponses : ProbeFailed(c, resp)
  \/ \E c \in Callers, resp \in ProbeResponses : ProbeOk(c, resp)
  \/ \E sel \in Selectable : SocketOpen(sel)
  \/ \E sel \in Selectable : HandshakeTimeout(sel)
  \/ \E sel \in Selectable : SocketError(sel)
  \/ \E sel \in Selectable : SocketClose(sel)
  \/ ReconnectFire
  \/ MonitorTick
  \/ Stop

Spec == Init /\ [][Next]_vars

\* The agent with its idle behaviour and the clock, against a backend that
\* is down (every probe fails, so no socket is ever made).
NextIdle ==
  \/ StartCall
  \/ \E c \in Callers, resp \in ProbeResponses : ProbeFailed(c, resp)
  \/ ReconnectFire
  \/ MonitorTick
  \/ Stop
  \/ IdleTick
  \/ DwellFire
  \/ LookAroundTick
  \/ AdvanceTime

SpecIdle == Init /\ [][NextIdle]_vars

\* The agent with a backend that is up and answers the handshake: messages
\* of every kind arrive on the open socket, and movements complete.
NextMsg ==
  \/ StartCall
  \/ \E resp \in ProbeResponses : ProbeOk("start", resp)
  \/ \E sel \in Selectable : SocketOpen(sel)
  \/ \E raw \in Payloads : BackendMessage(raw)
  \/ MoveComplete

SpecMsg == Init /\ [][NextMsg]_vars

\* Well-formed state updates
StateUpdates ==
  { [json |-> TRUE, value |-> [type |-> "STATE_UPDATE", state |-> u]] : u \in Updates }

\* The same agent and backend with all that sets the animation: state
\* updates, movements, greetings of players who come near, the idle cycle
\* and the clock.
NextLocal ==
  \/ StartCall
  \/ \E resp \in ProbeResponses : ProbeOk("start", resp)
  \/ \E sel \in Selectable : SocketOpen(sel)
  \/ \E raw \in StateUpdates : BackendMessage(raw)
  \/ MoveComplete
  \/ \E pos \in PlayerPositions, g \in Greetings : PlayerNearby(pos, g)
  \/ GreetFire
  \/ IdleTick
  \/ DwellFire
  \/ AdvanceTime

SpecLocal == Init /\ [][NextLocal]_vars

\* The same agent and backend with both idle cycles, the chat feed and the
\* clock: state updates arrive and movements complete in between the ticks.
NextCycles ==
  \/ StartCall
  \/ \E resp \in ProbeResponses : ProbeOk("start", resp)
  \/ \E sel \in Selectable : SocketOpen(sel)
  \/ \E raw \in StateUpdates : BackendMessage(raw)
  \/ MoveComplete
  \/ \E id \in FromIds, body \in ChatBodies : HandleIncomingChat(id, body)
  \/ IdleTick
  \/ DwellFire
  \/ LookAroundTick
  \/ AdvanceTime

SpecCycles == Init /\ [][NextCycles]_vars

\* The agent with the chat feed, players who come near and the clock, against
\* a backend that may be down, may answer the handshake or may not.
NextChat ==
  \/ StartCall
  \/ \E resp \in ProbeResponses : ProbeFailed("start", resp)
  \/ \E resp \in ProbeResponses : ProbeOk("start", resp)
  \/ \E sel \in Selectable : SocketOpen(sel)
  \/ \E sel \in Selectable : HandshakeTimeout(sel)
  \/ Stop
  \/ \E id \in FromIds, body \in ChatBodies : HandleIncomingChat(id, body)
  \/ \E pos \in PlayerPositions, g \in Greetings : PlayerNearby(pos, g)
  \/ GreetFire
  \/ AdvanceTime

SpecChat == Init /\ [][NextChat]_vars

\* ------------------------------------------------------------------ claims
\* Sockets whose handshake is pending
HandshakesPending ==
  (IF socket # <<>> /\ socket[1].readyState = "CONNECTING" THEN 1 ELSE 0)
  + BagCardinality([x \in {y \in BagToSet(others) : y.readyState = "CONNECTING"}
                      |-> CopiesIn(x, others)])

\* d lies within [0.9, 1.1] * min(60 s, 5 s * 2^(n-1))
InWindow(d, n) ==
  LET W == Min(60000, 5000 * Pow2(n - 1)) IN 10 * d >= 9 * W /\ 10 * d <= 11 * W

\* C1: at most one socket made by connectToBackend has its handshake pending.
C1_OneAttemptInFlight == HandshakesPending <= 1

\* C2: once stop() has returned, no step schedules a reconnect, starts a
\* connectToBackend call or makes a socket.
C2_NoReconnectAfterStop ==
  [][startPc = "stopped" =>
       /\ Count(reconnectTimers') <= Count(reconnectTimers)
       /\ Count(probes') <= Count(probes)
       /\ HandshakesPending' <= HandshakesPending]_vars

\* C3: once stop() has returned, no step changes currentAnimation or
\* currentRotation.
C3_FrozenAfterStop ==
  [][startPc = "stopped" =>
       /\ currentAnimation' = currentAnimation
       /\ currentRotation' = currentRotation]_vars

\* C4: isBackendConnected implies isConnected in every reachable state.
C4_BackendImpliesConnected == isBackendConnected => isConnected

\* The backoff law over attempt counts and jitter factors
BackoffLaw ==
  /\ \A n \in 1..10, j \in JitterSet :
       InWindow(Backoff(n, j), n) /\ Backoff(n, j) <= 60000
  /\ \A n \in 0..11 : ShouldRetry(n) <=> n < 10

\* C5: for every attempt count n in 1..10 and every jitter factor the delay
\* computed for n lies within [0.9, 1.1] * min(60 s, 5 s * 2^(n-1)) and does
\* not exceed 60 s, and shouldRetry(n) is true exactly for n < 10; and so it
\* is whenever scheduleReconnect runs: it schedules a retry exactly when the
\* counter is below 10, with a delay in the counter's window.
C5_BackoffWindow ==
  /\ BackoffLaw
  /\ \A i \in 1..Len(scheduleLog) :
       LET r == scheduleLog[i] IN
         /\ r.retry <=> r.attempts < 10
         /\ (r.retry /\ r.attempts \in 1..10) =>
              InWindow(r.delay, r.attempts) /\ r.delay <= 60000

\* Witness of C5: a retry scheduled with the counter at 9, where the cap
\* decides the delay
C5_Witness ==
  /\ scheduleLog # <<>>
  /\ scheduleLog[1].retry
  /\ scheduleLog[1].attempts = 9
  /\ scheduleLog[1].delay = 60000

\* C6: with the counter at 10 no retry is scheduled, and the give-up
\* diagnostic is emitted at most once.
C6_GiveUpOnce ==
  /\ \A i \in 1..Len(scheduleLog) : scheduleLog[i].attempts >= 10 => ~scheduleLog[i].retry
  /\ giveUps <= 1

\* C7 as stated: a close event with the counter at 3 schedules the retry
\* with a delay in the window of attempt 4, [0.9, 1.1] * 40 s.
C7_WindowOfAttempt4 ==
  \A i \in 1..Len(scheduleLog) :
    LET r == scheduleLog[i] IN
      (r.by = "onclose" /\ r.attempts = 3 /\ r.retry) => InWindow(r.delay, 4)

\* C7 as amended: a close event with the counter at 3 schedules the retry
\* with a delay in the window of attempt 3, [0.9, 1.1] * 20 s.
C7_WindowOfAttempt3 ==
  \A i \in 1..Len(scheduleLog) :
    LET r == scheduleLog[i] IN
      (r.by = "onclose" /\ r.attempts = 3 /\ r.retry) => InWindow(r.delay, 3)

\* Witness of C7: a close event has scheduled a retry with the counter at 3
C7_Witness ==
  /\ scheduleLog # <<>>
  /\ scheduleLog[1].by = "onclose"
  /\ scheduleLog[1].attempts = 3
  /\ scheduleLog[1].retry

\* C8: every open event resets the counter, sets isBackendConnected, sends
\* one STATE_UPDATE with the current pose, animation and interacting flag on
\* the socket that opened (this.socket is the only socket sent on), and
\* resolves the awaited open.
C8_OnOpen ==
  [][\A sel \in Selectable :
       SocketOpen(sel) =>
         /\ connectionAttempts' = 0
         /\ isBackendConnected'
         /\ Which(sel) = "this"
         /\ Len(outMsg') = 1
         /\ outMsg'[1] = [type |-> "STATE_UPDATE", position |-> currentPosition,
                          rotation |-> currentRotation,
                          animation |-> currentAnimation,
                          interacting |-> IsInteracting]
         /\ Sock(sel).awaited => startPc' = "running"]_vars

\* C9: whatever scheduleReconnect does, it does on behalf of a socket's close
\* event: no other handler (an error event, the connection monitor) calls it.
C9_SingleEntryPoint ==
  \A i \in 1..Len(scheduleLog) : scheduleLog[i].by = "onclose"

\* C10: after a failed probe the socket handshake is still attempted.
C10_HandshakeAfterFailedProbe ==
  [][\A c \in Callers, resp \in ProbeResponses :
       ProbeFailed(c, resp) => HandshakesPending' = HandshakesPending + 1]_vars

\* What the event loop and the network do of their own accord: a timer that
\* is due fires, the monitor's interval ticks, a probe is answered within its
\* 3 s, and a closing socket delivers its close event.  (start() and stop()
\* are the caller's, and a connecting or open socket may stay so.)
Due ==
  \/ ReconnectFire
  \/ MonitorTick
  \/ \E c \in Callers, resp \in ProbeResponses : ProbeFailed(c, resp) \/ ProbeOk(c, resp)
  \/ \E sel \in Selectable : HandshakeTimeout(sel)
  \/ \E sel \in Selectable : Sock(sel).readyState = "CLOSING" /\ SocketClose(sel)

\* Spec with that scheduling: the event loop never idles while a callback is
\* due.  (A timer that has used up its allowance holds back the monitor's
\* tick, so the timer is what runs.)
SpecLive == Spec /\ WF_vars(Due)

\* Socket x once its handshake timer has closed it and rejected its promise
TimedOut(x) ==
  [x EXCEPT !.readyState = "CLOSING", !.timer = FALSE, !.allow = 0, !.awaited = FALSE]

\* C11: when the handshake timer of a socket that is still connecting fires,
\* that socket is closed and the open operation fails (start(), if it awaits
\* it, carries on); and every close event runs scheduleReconnect.
C11_TimeoutFailsAttempt ==
  [][\A sel \in Selectable :
       /\ (HandshakeTimeout(sel) /\ Sock(sel).readyState = "CONNECTING") =>
            /\ IF Which(sel) = "this"
               THEN socket' = <<TimedOut(Sock(sel))>>
               ELSE CopiesIn(TimedOut(Sock(sel)), others')
                      = CopiesIn(TimedOut(Sock(sel)), others) + 1
            /\ Sock(sel).awaited => startPc' = "running"
       /\ SocketClose(sel) => scheduleLog' # <<>>]_vars

\* No connectToBackend call is awaiting its probe or its handshake
NothingInFlight == Count(probes) = 0 /\ HandshakesPending = 0

\* C12: while the agent is started and not stopped, the backend channel is
\* down, fewer than 10 attempts were made and no attempt is in flight, a new
\* attempt is eventually started (unless the agent is stopped first).
C12_FailureIsRetried ==
  (startPc \in {"probing", "awaiting", "running"} /\ ~isBackendConnected
     /\ connectionAttempts < 10 /\ NothingInFlight)
    ~> (Count(probes) > 0 \/ HandshakesPending > 0 \/ startPc = "stopped")

\* C13: once the give-up branch was taken, no step starts a connectToBackend
\* call or makes a socket.
C13_NoAttemptAfterGiveUp ==
  [][giveUps > 0 =>
       /\ Count(probes') <= Count(probes)
       /\ HandshakesPending' <= HandshakesPending]_vars

\* The inbound message that carries the partial update u
StateUpdate(u) == [json |-> TRUE, value |-> [type |-> "STATE_UPDATE", state |-> u]]

\* The fields of AgentState are left as they are
AgentStateUnchanged ==
  UNCHANGED <<isConnected, isBackendConnected, isMoving, currentAnimation,
              currentPosition, currentRotation, activeModel, isSpeaking, isThinking,
              browserActive, sinceInteraction, chatHistory>>

\* C14: whatever the payload, handleBackendMessage raises nothing to its
\* caller, closes no socket and leaves isBackendConnected as it is.
C14_RouterNeverRaises ==
  [][\A raw \in Payloads :
       BackendMessage(raw) =>
         /\ Len(msgLog') = 1
         /\ ~msgLog'[1].raised
         /\ UNCHANGED <<socket, others, isBackendConnected>>]_vars

\* Witness of C14: a payload that made the handler throw was logged and
\* dropped, and the channel is still open
C14_Witness ==
  /\ msgLog # <<>>
  /\ msgLog[1].logged
  /\ ~msgLog[1].raised
  /\ CanSend
  /\ isBackendConnected

\* The payload parses to a value whose type is none of the known ones
UnknownType(raw) ==
  /\ raw.json
  /\ ~Has(raw.value, "null")
  /\ Has(raw.value, "type") => raw.value.type \notin KnownTypes

\* C15: a message whose type is outside the known set is dispatched to no
\* handler, changes no field of AgentState and sends nothing.
C15_UnknownTypeIsNoOp ==
  [][\A raw \in Payloads :
       (UnknownType(raw) /\ BackendMessage(raw)) =>
         /\ msgLog' = << [handler |-> "none", raised |-> FALSE, logged |-> FALSE] >>
         /\ AgentStateUnchanged
         /\ UNCHANGED <<moveTimers, greetTimers, dwellTimers>>
         /\ outMsg' = <<>>]_vars

\* Witness of C15: a message of unknown type has just been dropped
C15_Witness ==
  /\ msgLog = << [handler |-> "none", raised |-> FALSE, logged |-> FALSE] >>
  /\ CanSend

\* C16: with the channel open, applying any partial update a second time
\* right after the first causes no further side effect (no animation change,
\* no movement, no rotation).
C16_ReconcileIdempotent ==
  CanSend =>
    \A u \in Updates :
      \A once \in {UpdateStateFromBackend(Local, u)} :
        UpdateStateFromBackend([once EXCEPT !.effects = <<>>], u).effects = <<>>

\* The animation of the highest concern that is set, "none" if none is
Precedence ==
  IF isMoving THEN "walking"
  ELSE IF isSpeaking THEN "talking"
  ELSE IF isThinking THEN "thinking"
  ELSE IF browserActive THEN "browsing"
  ELSE "none"

\* C17: whenever a concern flag is set, the animation is that of the highest
\* concern set (moving, then speaking, thinking, browsing).
C17_AnimationPrecedence == Precedence # "none" => currentAnimation = Precedence

\* C18: when moving clears while speaking is set the animation becomes the
\* speaking one, and when speaking clears while thinking is set (and moving
\* is not) it becomes the thinking one.
C18_FallThrough ==
  [][/\ (MoveComplete /\ isSpeaking) => currentAnimation' = "talking"
     /\ (BackendMessage(StateUpdate([speaking |-> FALSE])) /\ isSpeaking
           /\ isThinking /\ ~isMoving) => currentAnimation' = "thinking"]_vars

\* C19: while moving, thinking or browsing is set, a STATE_UPDATE that only
\* clears speaking does not turn the animation into idle.
C19_ClearSpeakingKeepsConcern ==
  [][(BackendMessage(StateUpdate([speaking |-> FALSE]))
        /\ (isMoving \/ isThinking \/ browserActive)
        /\ currentAnimation # "idle") => currentAnimation' # "idle"]_vars

\* No concern flag is set
NoConcern == ~isMoving /\ ~isSpeaking /\ ~isThinking /\ ~browserActive

\* C20 as stated: whenever no concern flag is set the animation is idle.
C20_IdleWhenNoConcern == NoConcern => currentAnimation = "idle"

\* The animations the backend names in an update's animations list
NamedByBackend == {u.animations[1] : u \in {v \in Updates : Has(v, "animations")}}

\* C20 as amended: the animation is idle until start() is called, and
\* whenever no concern flag is set the animation is none left over from a
\* concern: it is idle, an idle variant of the idle cycle, the greeting's
\* blessing, or one the backend named.
C20_NoStaleConcernAnimation ==
  /\ startPc = "new" => currentAnimation = "idle"
  /\ NoConcern =>
       currentAnimation \in {"idle", "blessing"} \cup IdleAnimations \cup NamedByBackend

\* Witness of C20: an idle variant shows while no concern flag is set, after
\* a movement started and completed
C20_Witness ==
  /\ NoConcern
  /\ currentAnimation \in IdleAnimations \ {"idle"}
  /\ currentPosition = Elsewhere

\* C21: on the open channel, a STATE_UPDATE that only sets speaking makes
\* the animation the speaking one, and a following STATE_UPDATE that only
\* clears speaking, with moving and thinking false, makes it idle again.
C21_SpeakingRoundTrip ==
  [][/\ (BackendMessage(StateUpdate([speaking |-> TRUE])) /\ CanSend) =>
          isSpeaking' /\ currentAnimation' = "talking"
     /\ (BackendMessage(StateUpdate([speaking |-> FALSE])) /\ CanSend
           /\ isSpeaking /\ currentAnimation = "talking"
           /\ ~isMoving /\ ~isThinking) =>
          ~isSpeaking' /\ currentAnimation' = "idle"]_vars

\* Witness of C21: a state update has made the agent speak, with moving and
\* thinking false, on the open channel
C21_Witness ==
  /\ CanSend
  /\ msgLog # <<>>
  /\ msgLog[1].handler = "updateStateFromBackend"
  /\ isSpeaking
  /\ currentAnimation = "talking"
  /\ ~isMoving
  /\ ~isThinking

\* updateInteraction runs in this step: a chat record of another player, or a
\* greeting of a player who came near
MarksInteraction ==
  \/ \E id \in FromIds \ {SelfId}, body \in ChatBodies : HandleIncomingChat(id, body)
  \/ ~IsInteracting /\ \E pos \in PlayerPositions, g \in Greetings : PlayerNearby(pos, g)

\* C22: isInteracting() is true right after updateInteraction(), true while
\* less than 60 s have passed since, and false once 60 s or more have.
C22_InteractionWindow ==
  [][/\ MarksInteraction => (sinceInteraction' = 0 /\ IsInteracting')
     /\ sinceInteraction' < 60000 => IsInteracting'
     /\ sinceInteraction' >= 60000 => ~IsInteracting']_vars

\* Witness of C22: the window of a chat record has run out
C22_Witness ==
  /\ chatHistory # <<>>
  /\ sinceInteraction >= 60000
  /\ ~IsInteracting

\* C23: a tick of the idle-animation cycle leaves the animation as it is
\* while the agent is interacting or any of moving, speaking, thinking or
\* browsing is set.
C23_IdleTickYields ==
  [][(IdleTick /\ (IsInteracting \/ isMoving \/ isSpeaking \/ isThinking
                     \/ browserActive)) =>
       currentAnimation' = currentAnimation]_vars

\* C24: once start() has returned and until stop(), both idle cycles are
\* set, whether the backend channel is up, down or being reconnected.
C24_IdleWhateverTheChannel ==
  startPc = "running" => idleAnimationInterval /\ lookAroundInterval

\* Witness of C24: both cycles have acted (an idle variant shows, the agent
\* has turned) while the channel is down and a reconnect is pending
C24_Witness ==
  /\ startPc = "running"
  /\ ~isBackendConnected
  /\ socket = <<>>
  /\ Count(reconnectTimers) > 0
  /\ currentAnimation \in IdleAnimations \ {"idle"}
  /\ currentRotation # 0

\* A message of the given type and text is among those just sent
Sent(type, text) == \E i \in 1..Len(outMsg) : outMsg[i].type = type /\ outMsg[i].text = text

\* C25: in every step the previous chatHistory is a prefix of the new one.
C25_ChatHistoryAppendOnly ==
  [][/\ Len(chatHistory') >= Len(chatHistory)
     /\ SubSeq(chatHistory', 1, Len(chatHistory)) = chatHistory]_vars

\* Witness of C25: an entry was appended after a different one
C25_Witness ==
  /\ Len(chatHistory) = 2
  /\ chatHistory[1] # chatHistory[2]

\* C26 as stated: every chat record of another player and every greeting of
\* a player who came near sends a VOICE_INPUT with its text, whatever the
\* state of the channel.
C26_VoiceInputAlways ==
  [][/\ \A id \in FromIds \ {SelfId}, body \in ChatBodies :
          HandleIncomingChat(id, body) => Sent("VOICE_INPUT", body)'
     /\ \A pos \in PlayerPositions, g \in Greetings :
          (PlayerNearby(pos, g) /\ ~IsInteracting) => Sent("VOICE_INPUT", g)']_vars

\* C26 as amended: they send a VOICE_INPUT with their text when this.socket
\* is open, and send nothing at all when it is not.
C26_VoiceInputWhenOpen ==
  [][/\ \A id \in FromIds \ {SelfId}, body \in ChatBodies :
          HandleIncomingChat(id, body) =>
            IF CanSend THEN Sent("VOICE_INPUT", body)' ELSE outMsg' = <<>>
     /\ \A pos \in PlayerPositions, g \in Greetings :
          (PlayerNearby(pos, g) /\ ~IsInteracting) =>
            IF CanSend THEN Sent("VOICE_INPUT", g)' ELSE outMsg' = <<>>]_vars

\* Witness of C26: a chat record was sent as voice input on the open socket
C26_Witness ==
  /\ CanSend
  /\ \E body \in ChatBodies : Sent("VOICE_INPUT", body)

\* C27: a chat record of the agent's own sends nothing, appends nothing and
\* leaves the interaction time alone; a record of another player marks the
\* interaction and, this.socket being open, is sent as voice input and
\* appended to chatHistory.
C27_OwnChatIgnored ==
  [][\A id \in FromIds, body \in ChatBodies :
       HandleIncomingChat(id, body) =>
         IF id = SelfId
         THEN outMsg' = <<>> /\ UNCHANGED <<chatHistory, sinceInteraction>>
         ELSE /\ sinceInteraction' = 0
              /\ CanSend =>
                   /\ Sent("VOICE_INPUT", body)'
                   /\ chatHistory' = Append(chatHistory, [sender |-> "user", text |-> body])]_vars

\* Witness of C27: a record of the agent's own was ignored while the socket
\* was open
C27_Witness ==
  /\ msgLog # <<>>
  /\ msgLog[1].handler = "ignored"
  /\ CanSend
  /\ outMsg = <<>>

\* The animations a handler asks for
Animations ==
  {"idle", "walking", "talking", "thinking", "browsing", "blessing"}
    \cup IdleAnimations \cup NamedByBackend

\* C28: setAnimation with the current animation changes no field and causes
\* no side effect (it sends nothing in any case); with another animation it
\* sets that one.
C28_SameAnimationIsNoOp ==
  /\ SetAnim(Local, currentAnimation) = Local
  /\ SetAnimation(currentAnimation, currentAnimation) = currentAnimation
  /\ \A a \in Animations \ {currentAnimation} :
       /\ SetAnim(Local, a) = [Local EXCEPT !.animation = a,
                                            !.effects = << <<"animation", a>> >>]
       /\ SetAnimation(currentAnimation, a) = a

\* Witness of C28: a concern's animation shows on the open channel, where a
\* repeated update asks for it again
C28_Witness ==
  /\ CanSend
  /\ isSpeaking
  /\ currentAnimation = "talking"
  /\ UpdateStateFromBackend(Local, [speaking |-> TRUE]) = Local

\* C29: when the dwell timer of the idle cycle fires while an idle variant
\* shows and no concern flag is set, the animation becomes neutral idle.
C29_DwellReverts ==
  [][(DwellFire /\ NoConcern /\ currentAnimation \in IdleAnimations) =>
       currentAnimation' = "idle"]_vars

\* C30: a look-around tick turns the agent only when it is neither
\* interacting nor moving, and changes nothing but currentRotation: no other
\* field of AgentState, no timer, and no message is sent.
C30_LookAroundFrame ==
  [][LookAroundTick =>
       /\ (IsInteracting \/ isMoving) => UNCHANGED currentRotation
       /\ UNCHANGED <<isConnected, isBackendConnected, isMoving, currentAnimation,
                      currentPosition, activeModel, isSpeaking, isThinking,
                      browserActive, sinceInteraction, chatHistory>>
       /\ UNCHANGED <<moveTimers, greetTimers, dwellTimers>>
       /\ outMsg' = <<>>]_vars

\* Witness of C30: the agent has looked around on the open channel while a
\* concern's animation shows
C30_Witness ==
  /\ CanSend
  /\ currentRotation \in LookAngles \ {0}
  /\ browserActive
  /\ currentAnimation = "browsing"
  /\ outMsg = <<>>

\* C31: no step taken while isBackendConnected is false changes
\* currentPosition or currentRotation.
C31_PoseFrozenWhenDown ==
  [][~isBackendConnected => UNCHANGED <<currentPosition, currentRotation>>]_vars

\* C33: every reconnect delay scheduled is at least 0.9 times the 5 s base.
C33_MinimumDelay ==
  \A i \in 1..Len(scheduleLog) :
    scheduleLog[i].retry => 10 * scheduleLog[i].delay >= 9 * 5000

\* C34: the attempt counter never exceeds 10.
C34_CounterWithinCeiling == connectionAttempts <= 10

\* C35: the handshake timer of a socket that this.socket no longer refers to
\* leaves this.socket as it is.
C35_TimeoutClosesOwnSocket ==
  [][\A sel \in Selectable :
       (HandshakeTimeout(sel) /\ Which(sel) = "other") => socket' = socket]_vars

\* C36: once start() is called it returns: the await of connectToBackend
\* settles and start() goes on to set the idle behaviours and isConnected.
C36_StartTerminates ==
  (startPc \in {"probing", "awaiting"}) ~> (startPc \in {"running", "stopped"})

\* C37: isBackendConnected is true exactly when this.socket is open (its
\* open event handled).
C37_FlagReflectsChannel ==
  /\ isBackendConnected => CanSend
  /\ CanSend => isBackendConnected

\* C32: onPlayerNearby greets (blessing, voice input, interaction marked)
\* only when the agent is not interacting and does nothing otherwise; and
\* the time since the last interaction, set to 0 by each greeting, grows only
\* as the clock advances, so two greetings are at least 60 s apart.
C32_GreetingsSpacedOut ==
  [][/\ \A pos \in PlayerPositions, g \in Greetings :
          PlayerNearby(pos, g) =>
            IF IsInteracting
            THEN /\ outMsg' = <<>>
                 /\ UNCHANGED <<currentAnimation, currentRotation, chatHistory,
                                sinceInteraction, greetTimers>>
            ELSE /\ sinceInteraction >= 60000
                 /\ sinceInteraction' = 0
                 /\ currentAnimation' = "blessing"
                 /\ greetTimers' = greetTimers + 1
                 /\ CanSend => Sent("VOICE_INPUT", g)'
     /\ sinceInteraction' > sinceInteraction => AdvanceTime]_vars

\* Witness of C32: a second greeting has just been made
C32_Witness ==
  /\ Len(chatHistory) = 2
  /\ \A i \in 1..2 : chatHistory[i].text \in Greetings
  /\ sinceInteraction = 0
  /\ \E g \in Greetings : Sent("VOICE_INPUT", g)

\* this.socket refers to a socket whose readyState is OPEN
ThisSocketOpen == socket # <<>> /\ socket[1].readyState = "OPEN"

\* The VOICE_INPUT messages among those just sent
VoiceInputsSent ==
  Cardinality({i \in 1..Len(outMsg) : outMsg[i].type = "VOICE_INPUT"})

\* C38: a step sends messages only on an open this.socket, chatHistory
\* gains one entry per VOICE_INPUT sent, and a chat record or greeting
\* handled while this.socket is not open sends nothing and leaves
\* chatHistory as it is.
C38_SendsOnlyWhenOpen ==
  [][/\ outMsg' # <<>> => ThisSocketOpen'
     /\ Len(chatHistory') = Len(chatHistory) + VoiceInputsSent'
     /\ ~ThisSocketOpen =>
          \A id \in FromIds, body \in ChatBodies, pos \in PlayerPositions, g \in Greetings :
            (HandleIncomingChat(id, body) \/ PlayerNearby(pos, g)) =>
              outMsg' = <<>> /\ chatHistory' = chatHistory]_vars

\* Witness of C38: a chat record of another player was handled while
\* this.socket was not open, and nothing was sent or appended
C38_Witness ==
  /\ msgLog # <<>>
  /\ msgLog[1].handler = "sendVoiceInput"
  /\ socket # <<>>
  /\ socket[1].readyState # "OPEN"
  /\ outMsg = <<>>
  /\ chatHistory = <<>>

\* C39: while a newer movement is in progress, the completion timer of an
\* older one leaves isMoving set and the walking animation showing.
C39_MovingUntilLastCompletes ==
  [][(MoveComplete /\ moveTimers > 1) =>
       /\ isMoving'
       /\ currentAnimation = "walking" => currentAnimation' = "walking"]_vars

\* C40: until start() has returned (no chat record and no player has been
\* handled, so updateInteraction has never run) isInteracting() is false.
C40_FreshAgentNotInteracting ==
  startPc \in {"new", "probing", "awaiting"} => ~IsInteracting

====
